---- MODULE Spec2Model ----
(***************************************************************************)
(* to_socket_addrs_timeout: hostname resolution with a bounded wait.       *)
(*                                                                         *)
(* One call of to_socket_addrs_timeout is modelled as a step machine: the  *)
(* dispatch (literal fast path, "host:port" split), then one of the three  *)
(* platform engines (thread fallback, Linux getaddrinfo_a, Windows         *)
(* GetAddrInfoExW), interleaved with the worker thread, the resolver and   *)
(* the clock.                                                              *)
(*                                                                         *)
(* Strings are sequences of one-byte characters; the character NUL is the  *)
(* byte 0.                                                                 *)
(***************************************************************************)
EXTENDS Integers, Sequences, FiniteSets, TLC

\* ------------------------------------------------------------------ bounds
MaxTimeout == 1
MaxCalls == 2
MaxList == 3
MaxNone == 2

\* fallback.rs: the capacity of the transfer buffer, [u8; 253]
BufferCap == 253
\* fallback.rs: the longest host resolve_timeout accepts, v.len() > 253
MaxHostLen == 253
\* u16::MAX, the largest port str::parse::<u16>() accepts
U16Max == 65535

\* ----------------------------------------------------------------- strings
NUL == "NUL"
DigitChars == <<"0", "1", "2", "3", "4", "5", "6", "7", "8", "9">>
HexChars == DigitChars \o <<"a", "b", "c", "d", "e", "f">>

IsDigit(c) == \E i \in 1..10 : DigitChars[i] = c
IsHex(c) == \E i \in 1..16 : HexChars[i] = c
HexVal(c) == (CHOOSE i \in 1..16 : HexChars[i] = c) - 1

AllDigits(s) == \A i \in 1..Len(s) : IsDigit(s[i])
AllHex(s) == \A i \in 1..Len(s) : IsHex(s[i])
Contains(s, c) == \E i \in 1..Len(s) : s[i] = c

Min(a, b) == IF a < b THEN a ELSE b

\* The value of a digit string in the given radix, saturating at cap (the
\* parsers check for overflow digit by digit).
RECURSIVE NumVal(_, _, _)
NumVal(s, radix, cap) ==
    IF s = <<>> THEN 0
    ELSE Min(cap, NumVal(SubSeq(s, 1, Len(s) - 1), radix, cap) * radix
                  + HexVal(s[Len(s)]))

\* Decimal and hexadecimal rendering (Display for the integer types).
RECURSIVE Dec(_)
Dec(n) == IF n < 10 THEN <<DigitChars[n + 1]>>
          ELSE Dec(n \div 10) \o <<DigitChars[(n % 10) + 1]>>

RECURSIVE Hex(_)
Hex(n) == IF n < 16 THEN <<HexChars[n + 1]>>
          ELSE Hex(n \div 16) \o <<HexChars[(n % 16) + 1]>>

Rep(c, n) == [i \in 1..n |-> c]

RECURSIVE Join(_, _)
Join(parts, sep) ==
    IF Len(parts) = 0 THEN <<>>
    ELSE IF Len(parts) = 1 THEN parts[1]
    ELSE parts[1] \o sep \o Join(Tail(parts), sep)

\* The index of the last / first occurrence of c in s, 0 when there is none.
LastIndexOf(s, c) ==
    IF Contains(s, c) THEN CHOOSE i \in 1..Len(s) :
                               s[i] = c /\ \A j \in (i + 1)..Len(s) : s[j] # c
    ELSE 0
FirstIndexOf(s, c) ==
    IF Contains(s, c) THEN CHOOSE i \in 1..Len(s) :
                               s[i] = c /\ \A j \in 1..(i - 1) : s[j] # c
    ELSE 0

\* str::split(c): the pieces of s between the occurrences of c.
RECURSIVE Split(_, _)
Split(s, c) ==
    LET i == FirstIndexOf(s, c)
    IN  IF i = 0 THEN <<s>>
        ELSE <<SubSeq(s, 1, i - 1)>> \o Split(SubSeq(s, i + 1, Len(s)), c)

\* str::rsplit_once(':'): <<before, after>> of the last colon, or NoSplit.
NoSplit == <<>>
SplitOnceFirst(s) ==
    LET i == FirstIndexOf(s, ":")
    IN  IF i = 0 THEN NoSplit
        ELSE <<SubSeq(s, 1, i - 1), SubSeq(s, i + 1, Len(s))>>
RsplitOnce(s) ==
    LET i == LastIndexOf(s, ":")
    IN  IF i = 0 THEN NoSplit
        ELSE <<SubSeq(s, 1, i - 1), SubSeq(s, i + 1, Len(s))>>

\* ----------------------------------------------------------------- parsers
\* A failed parse.
NoParse == <<"Err">>

\* str::parse::<u16>(): an optional '+', then at least one decimal digit, the
\* value at most u16::MAX (leading zeros are accepted).
ParseU16(s) ==
    LET d == IF Len(s) > 0 /\ s[1] = "+" THEN Tail(s) ELSE s
    IN  IF Len(d) = 0 \/ ~AllDigits(d) THEN NoParse
        ELSE IF NumVal(d, 10, U16Max + 1) > U16Max THEN NoParse
        ELSE <<"Ok", NumVal(d, 10, U16Max + 1)>>

\* The port of a socket-address literal: decimal digits only, no sign.
ParsePort(s) ==
    IF Len(s) = 0 \/ ~AllDigits(s) THEN NoParse
    ELSE IF NumVal(s, 10, U16Max + 1) > U16Max THEN NoParse
    ELSE <<"Ok", NumVal(s, 10, U16Max + 1)>>

\* One octet of a dotted quad: 1-3 digits, no leading zero, at most 255.
OctetOk(p) ==
    /\ Len(p) \in 1..3
    /\ AllDigits(p)
    /\ (Len(p) > 1 => p[1] # "0")
    /\ NumVal(p, 10, 256) <= 255

\* str::parse::<Ipv4Addr>()
ParseIpv4(s) ==
    LET parts == Split(s, ".")
    IN  IF Len(parts) = 4 /\ \A i \in 1..4 : OctetOk(parts[i])
        THEN <<"Ok", [i \in 1..4 |-> NumVal(parts[i], 10, 256)]>>
        ELSE NoParse

\* One 16-bit group of an IPv6 literal: 1-4 hexadecimal digits.
GroupOk(p) == Len(p) \in 1..4 /\ AllHex(p)

\* The groups of one side of an IPv6 literal; the last piece may be an
\* embedded dotted quad, which stands for two groups.
V6Pieces(s) == IF s = <<>> THEN <<>> ELSE Split(s, ":")
V6PiecesOk(ps, quadAllowed) ==
    \A i \in 1..Len(ps) :
        \/ GroupOk(ps[i])
        \/ quadAllowed /\ i = Len(ps) /\ ParseIpv4(ps[i]) # NoParse
V6Groups(ps) ==
    IF Len(ps) = 0 THEN <<>>
    ELSE LET last == ps[Len(ps)]
             head == [i \in 1..(Len(ps) - 1) |-> NumVal(ps[i], 16, 65536)]
         IN  IF GroupOk(last) THEN head \o <<NumVal(last, 16, 65536)>>
             ELSE LET q == ParseIpv4(last)[2]
                  IN  head \o <<q[1] * 256 + q[2], q[3] * 256 + q[4]>>

\* The index of the first "::" in s, 0 when there is none.
DoubleColon(s) ==
    IF \E i \in 1..(Len(s) - 1) : s[i] = ":" /\ s[i + 1] = ":"
    THEN CHOOSE i \in 1..(Len(s) - 1) :
             /\ s[i] = ":" /\ s[i + 1] = ":"
             /\ \A j \in 1..(i - 1) : ~(s[j] = ":" /\ s[j + 1] = ":")
    ELSE 0

\* str::parse::<Ipv6Addr>(): eight groups, or fewer around one "::" that
\* stands for at least one zero group.
ParseIpv6(s) ==
    LET dc == DoubleColon(s)
    IN  IF dc = 0
        THEN LET ps == V6Pieces(s)
             IN  IF Len(ps) > 0 /\ V6PiecesOk(ps, TRUE) /\ Len(V6Groups(ps)) = 8
                 THEN <<"Ok", V6Groups(ps)>>
                 ELSE NoParse
        ELSE LET hp == V6Pieces(SubSeq(s, 1, dc - 1))
                 tp == V6Pieces(SubSeq(s, dc + 2, Len(s)))
             IN  IF /\ V6PiecesOk(hp, FALSE)
                    /\ V6PiecesOk(tp, TRUE)
                    /\ Len(V6Groups(hp)) + Len(V6Groups(tp)) <= 7
                 THEN LET h == V6Groups(hp)
                          t == V6Groups(tp)
                      IN  <<"Ok", h \o [i \in 1..(8 - Len(h) - Len(t)) |-> 0] \o t>>
                 ELSE NoParse

\* A socket address: the family, the address and the port.
SockV4(ip, port) == [fam |-> "v4", ip |-> ip, port |-> port]
SockV6(ip, port) == [fam |-> "v6", ip |-> ip, port |-> port]

\* str::parse::<SocketAddr>(): "a.b.c.d:port" or "[v6]:port".
ParseSocketAddrV4Only(s) ==
    LET colon == FirstIndexOf(s, ":")
    IN  IF colon = 0 THEN NoParse
        ELSE LET ip == ParseIpv4(SubSeq(s, 1, colon - 1))
                 p == ParsePort(SubSeq(s, colon + 1, Len(s)))
             IN  IF ip = NoParse \/ p = NoParse THEN NoParse
                 ELSE <<"Ok", SockV4(ip[2], p[2])>>
ParseSocketAddr(s) ==
    IF Len(s) > 0 /\ s[1] = "["
    THEN LET close == FirstIndexOf(s, "]")
         IN  IF close = 0 \/ close + 1 > Len(s) \/ s[close + 1] # ":"
             THEN NoParse
             ELSE LET ip == ParseIpv6(SubSeq(s, 2, close - 1))
                      p == ParsePort(SubSeq(s, close + 2, Len(s)))
                  IN  IF ip = NoParse \/ p = NoParse THEN NoParse
                      ELSE <<"Ok", SockV6(ip[2], p[2])>>
    ELSE LET colon == FirstIndexOf(s, ":")
         IN  IF colon = 0 THEN NoParse
             ELSE LET ip == ParseIpv4(SubSeq(s, 1, colon - 1))
                      p == ParsePort(SubSeq(s, colon + 1, Len(s)))
                  IN  IF ip = NoParse \/ p = NoParse THEN NoParse
                      ELSE <<"Ok", SockV4(ip[2], p[2])>>

\* ------------------------------------------------------------------ inputs
\* The targets a call is made with.  Each is built from what it is meant to
\* denote (origin): an address and a port rendered as text, or a host name
\* and a port text joined by a colon.
V4Set == {<<1, 2, 3, 4>>, <<255, 0, 10, 99>>}
V6Set == {<<0, 0, 0, 0, 0, 0, 0, 1>>, <<10, 0, 0, 0, 0, 0, 0, 65535>>}
PortSet == {80, U16Max}

FmtV4(ip) == Join([i \in 1..4 |-> Dec(ip[i])], <<".">>)

\* Display for Ipv6Addr, as far as the addresses of V6Set need it: a leading
\* run of zero groups is written "::".
LeadingZeros(g) ==
    CHOOSE n \in 0..8 : (\A i \in 1..n : g[i] = 0) /\ (n < 8 => g[n + 1] # 0)
FmtV6(g) ==
    LET z == LeadingZeros(g)
    IN  IF z = 0 THEN Join([i \in 1..8 |-> Hex(g[i])], <<":">>)
        ELSE <<":", ":">> \o Join([i \in 1..(8 - z) |-> Hex(g[z + i])], <<":">>)

\* Host names that are no address literal.
NameSet ==
    { <<"h">>, <<"h", NUL, "g">>, <<"h", ":", "g">>,
      Rep("h", MaxHostLen), Rep("h", MaxHostLen + 1) }
\* Port texts, valid and not.
PortTextSet == { Dec(80), <<>>, <<"x">>, Dec(U16Max + 1) }
SignedPortText == <<"+">> \o Dec(80)

Origin(kind, ip, host, port, ptxt) ==
    [kind |-> kind, ip |-> ip, host |-> host, port |-> port, ptxt |-> ptxt]
StrTarget(s) == [shape |-> "str", s |-> s, port |-> 0]
PairTarget(h, p) == [shape |-> "pair", s |-> h, port |-> p]
Input(o, t) == [origin |-> o, target |-> t]

Inputs ==
    {Input(Origin("sockv4", ip, <<>>, p, <<>>),
           StrTarget(FmtV4(ip) \o <<":">> \o Dec(p))) : ip \in V4Set, p \in PortSet}
    \cup
    {Input(Origin("sockv6", ip, <<>>, p, <<>>),
           StrTarget(<<"[">> \o FmtV6(ip) \o <<"]", ":">> \o Dec(p))) :
        ip \in V6Set, p \in PortSet}
    \cup
    {Input(Origin("barev4", ip, <<>>, 0, <<>>), StrTarget(FmtV4(ip))) : ip \in V4Set}
    \cup
    {Input(Origin("barev6", ip, <<>>, 0, <<>>), StrTarget(FmtV6(ip))) : ip \in V6Set}
    \cup
    {Input(Origin("v6port", ip, <<>>, p, <<>>),
           StrTarget(FmtV6(ip) \o <<":">> \o Dec(p))) : ip \in V6Set, p \in PortSet}
    \cup
    {Input(Origin("hostport", <<>>, h, 0, pt), StrTarget(h \o <<":">> \o pt)) :
        h \in NameSet, pt \in PortTextSet}
    \cup
    {Input(Origin("hostport", <<>>, <<"h">>, 0, SignedPortText),
           StrTarget(<<"h", ":">> \o SignedPortText))}
    \cup
    {Input(Origin("nocolon", <<>>, h, 0, <<>>), StrTarget(h)) :
        h \in {n \in NameSet : ~Contains(n, ":")}}
    \cup
    {Input(Origin("pairv4", ip, <<>>, p, <<>>), PairTarget(FmtV4(ip), p)) :
        ip \in V4Set, p \in PortSet}
    \cup
    {Input(Origin("pairv6", ip, <<>>, p, <<>>), PairTarget(FmtV6(ip), p)) :
        ip \in V6Set, p \in PortSet}
    \cup
    {Input(Origin("pairname", <<>>, h, 80, <<>>), PairTarget(h, 80)) : h \in NameSet}

Engines == {"fallback", "linux", "windows"}

\* ---------------------------------------------------------------- outcomes
\* io::Result of a call: Ok with the addresses, or an error of some kind.
NoResult == [kind |-> "None", addrs |-> <<>>, code |-> "none"]
Ok(addrs) == [kind |-> "Ok", addrs |-> addrs, code |-> "none"]
Err(kind, code) == [kind |-> kind, addrs |-> <<>>, code |-> code]
InvalidInput == Err("InvalidInput", "none")
TimedOut == Err("TimedOut", "none")

\* ---------------------------------------------------------------- dispatch
\* What to_socket_addrs_timeout decides before any engine runs.
Literal(addr) == [tag |-> "literal", addr |-> addr, host |-> <<>>, port |-> 0]
Invalid == [tag |-> "invalid", addr |-> <<>>, host |-> <<>>, port |-> 0]
Resolve(host, port) == [tag |-> "resolve", addr |-> <<>>, host |-> host, port |-> port]

\* impl ToSocketAddrsTimeout for str
StrDispatchNoFastPath(s) ==
    LET sp == RsplitOnce(s)
    IN  IF sp = NoSplit THEN Invalid
        ELSE IF ParseU16(sp[2]) = NoParse THEN Invalid
        ELSE Resolve(sp[1], ParseU16(sp[2])[2])
StrDispatch(s) ==
    IF ParseSocketAddr(s) # NoParse THEN Literal(ParseSocketAddr(s)[2])
    ELSE LET sp == RsplitOnce(s)
         IN  IF sp = NoSplit THEN Invalid
             ELSE IF ParseU16(sp[2]) = NoParse THEN Invalid
             ELSE Resolve(sp[1], ParseU16(sp[2])[2])

\* impl ToSocketAddrsTimeout for (&str, u16)
PairDispatch(host, port) ==
    IF ParseIpv4(host) # NoParse THEN Literal(SockV4(ParseIpv4(host)[2], port))
    ELSE IF ParseIpv6(host) # NoParse THEN Literal(SockV6(ParseIpv6(host)[2], port))
    ELSE Resolve(host, port)

Dispatch(t) ==
    IF t.shape = "str" THEN StrDispatch(t.s) ELSE PairDispatch(t.s, t.port)

\* ------------------------------------------------------- the OS resolver
\* One record of a result list (addrinfo): the family and the raw address
\* with the port the OS stored in it.
Rec(fam, ip, port) == [fam |-> fam, ip |-> ip, port |-> port]
OsListSet ==
    { <<Rec("other", <<>>, 0), Rec("v4", <<9, 9, 9, 9>>, 0),
        Rec("v6", <<0, 0, 0, 0, 0, 0, 0, 9>>, 53)>> }
\* How a resolution ends: a result list, or a resolver error.
NoList == <<>>
OsOutcomeSet == [ok : {TRUE}, list : OsListSet] \cup {[ok |-> FALSE, list |-> NoList]}

\* sockaddr_to_addr: the socket address of a record, for the two families
\* it knows.
sockaddr_to_addr(r) ==
    IF r.fam = "v4" THEN <<"Ok", SockV4(r.ip, r.port)>>
    ELSE IF r.fam = "v6" THEN <<"Ok", SockV6(r.ip, r.port)>>
    ELSE NoParse

\* The addresses a walk of the list yields, each with its port set to p
\* (LookupHost::next under resolve_socket_addr's map).
AddrsOsPort(list, p) ==
    LET known == SelectSeq(list, LAMBDA r : sockaddr_to_addr(r) # NoParse)
    IN  [i \in 1..Len(known) |-> sockaddr_to_addr(known[i])[2]]
RECURSIVE Addrs(_, _)
Addrs(list, p) ==
    IF list = <<>> THEN <<>>
    ELSE LET a == sockaddr_to_addr(Head(list))
         IN  IF a = NoParse THEN Addrs(Tail(list), p)
             ELSE <<[a[2] EXCEPT !.port = p]>> \o Addrs(Tail(list), p)

\* Option<SocketAddr>, as LookupHost::next returns it.
None == <<"None">>
Some(a) == <<"Some", a>>

\* LookupHost::next with the cursor at record cur of the list (Len + 1 is
\* the null pointer after the last record): a null cursor ends the call
\* with None and stays null; otherwise the cursor moves to ai_next, then a
\* record sockaddr_to_addr converts is returned and any other record sends
\* the loop around again.
RECURSIVE LookupHostNextStops(_, _)
LookupHostNextStops(list, cur) ==
    IF cur > Len(list) THEN [item |-> None, cur |-> cur]
    ELSE LET a == sockaddr_to_addr(list[cur])
         IN  IF a # NoParse THEN [item |-> Some(a[2]), cur |-> cur + 1]
             ELSE [item |-> None, cur |-> cur + 1]
RECURSIVE LookupHostNext(_, _)
LookupHostNext(list, cur) ==
    IF cur > Len(list) THEN [item |-> None, cur |-> cur]
    ELSE LET a == sockaddr_to_addr(list[cur])
         IN  IF a # NoParse THEN [item |-> Some(a[2]), cur |-> cur + 1]
             ELSE LookupHostNext(list, cur + 1)

\* (host, port).to_socket_addrs() of the standard library, run by the
\* fallback worker: a literal host needs no resolver, a host with a NUL
\* byte is refused, anything else is a blocking resolver request.
StdLocal(host, port) ==
    IF ParseIpv4(host) # NoParse THEN Ok(<<SockV4(ParseIpv4(host)[2], port)>>)
    ELSE IF ParseIpv6(host) # NoParse THEN Ok(<<SockV6(ParseIpv6(host)[2], port)>>)
    ELSE IF Contains(host, NUL) THEN InvalidInput
    ELSE NoResult
StdOutcome(o, port) ==
    IF o.ok THEN Ok(Addrs(o.list, port)) ELSE Err("Other", "NoName")

\* ------------------------------------------------------------------- state
VARIABLES
    engine,     \* the platform engine the build selected
    input,      \* the target of the calls, with what it was built from
    timeout,    \* the timeout of the calls
    callNo,     \* the number of the current call
    pc,         \* where the caller is in the current call
    now,        \* the time since the current call began
    results,    \* results[c]: what call c returned
    arg,        \* the host and port the engine was entered with
    spawned,    \* worker threads spawned so far
    osRequests, \* resolver requests submitted to the OS so far
    chan,       \* chan[c]: the sync_channel(1) of call c
    worker,     \* worker[c]: the worker thread of call c
    copied,     \* bytes copied into the transfer buffer by the current call
    deadline,   \* when the bounded receive of the current call gives up
    lx,         \* lx[c]: the request record (gaicb) of call c and its resolver
    endT,       \* getaddrinfo_timeout's deadline, start + timeout
    sret,       \* what the last gai_suspend returned
    lh,         \* the LookupHost the engine handed back
    win,        \* win[c]: the Context of call c, its request and its callback
    wsaInit,    \* WSA_START has been initialised
    it          \* a LookupHost being walked: its list, its cursor, its returns

vars == <<engine, input, timeout, callNo, pc, now, results, arg, spawned,
          osRequests, chan, worker, copied, deadline, lx, endT, sret, lh,
          win, wsaInit, it>>

Calls == 1..MaxCalls
MaxNow == MaxTimeout + 1
NoArg == [host |-> <<>>, port |-> 0]
NoChan == [buf |-> <<>>, rx |-> FALSE, tx |-> FALSE]
NoWorker == [st |-> "none", host |-> <<>>, port |-> 0, val |-> NoResult]

fixed == <<engine, input, timeout>>
fbVars == <<chan, worker, copied, deadline>>
lxVars == <<lx, endT, sret, lh>>
winVars == <<win, wsaInit>>

\* A request record nobody submitted.
NoReq == [req |-> "none", ret |-> "Zero", addrinfo |-> "null", alive |-> FALSE,
          list |-> "none", content |-> NoList, frees |-> 0, cancels |-> 0,
          uaf |-> FALSE]
NoLh == [original |-> "none", port |-> 0]
\* A Context nobody created.
NoCtx == [event |-> "none", query_result |-> "null", result |-> NoResult,
          lhOriginal |-> "none", os |-> "none", cb |-> "none", code |-> "none",
          by |-> "none", runs |-> 0, list |-> "none", content |-> NoList,
          frees |-> 0]

InitCalls ==
    /\ engine \in Engines
    /\ input \in Inputs
    /\ timeout \in 0..MaxTimeout
    /\ callNo = 1
    /\ pc = "start"
    /\ now = 0
    /\ results = [c \in Calls |-> NoResult]
    /\ arg = NoArg
    /\ spawned = 0
    /\ osRequests = 0
    /\ chan = [c \in Calls |-> NoChan]
    /\ worker = [c \in Calls |-> NoWorker]
    /\ copied = 0
    /\ deadline = 0
    /\ lx = [c \in Calls |-> NoReq]
    /\ endT = 0
    /\ sret = "none"
    /\ lh = NoLh
    /\ win = [c \in Calls |-> NoCtx]
    /\ wsaInit = FALSE

\* No LookupHost is being walked.
NoIter == [list |-> NoList, cur |-> 0, rets |-> <<>>, visits |-> <<>>]

Init == InitCalls /\ it = NoIter

Return(r) == results' = [results EXCEPT ![callNo] = r] /\ pc' = "done"

EnginePc == IF engine = "fallback" THEN "fb_enter"
            ELSE IF engine = "linux" THEN "lx_enter" ELSE "win_enter"

\* to_socket_addrs_timeout, up to the engine: the literal fast path and the
\* "host:port" split.
Call ==
    /\ pc = "start"
    /\ LET d == Dispatch(input.target)
       IN  IF d.tag = "literal" THEN Return(Ok(<<d.addr>>)) /\ arg' = arg
           ELSE IF d.tag = "invalid" THEN Return(InvalidInput) /\ arg' = arg
           ELSE /\ arg' = [host |-> d.host, port |-> d.port]
                /\ pc' = EnginePc
                /\ results' = results
    /\ UNCHANGED <<fixed, it, callNo, now, spawned, osRequests, fbVars, lxVars, winVars>>

\* The same call made again.
Again ==
    /\ pc = "done"
    /\ callNo < MaxCalls
    /\ callNo' = callNo + 1
    /\ pc' = "start"
    /\ now' = 0
    /\ arg' = NoArg
    /\ copied' = 0
    /\ deadline' = 0
    /\ endT' = 0
    /\ sret' = "none"
    /\ lh' = NoLh
    /\ UNCHANGED <<fixed, it, results, spawned, osRequests, chan, worker, lx, winVars>>

Tick ==
    /\ pc \notin {"start", "done"}
    /\ now < MaxNow
    /\ now' = now + 1
    /\ UNCHANGED <<fixed, it, callNo, pc, results, arg, spawned, osRequests, fbVars,
                   lxVars, winVars>>

\* ------------------------------------------------- thread-fallback engine
\* resolve_timeout's length check.
FbAcceptsOneMore(v) == ~(Len(v) > MaxHostLen + 1)
FbAccepts(v) == ~(Len(v) > MaxHostLen)

\* resolve_timeout up to the bounded receive: the length check, the
\* channel, the copy into the buffer and the spawn.
FbEnter ==
    /\ pc = "fb_enter"
    /\ IF ~FbAccepts(arg.host)
       THEN Return(InvalidInput) /\ UNCHANGED <<spawned, fbVars>>
       ELSE /\ chan' = [chan EXCEPT ![callNo] = [buf |-> <<>>, rx |-> TRUE, tx |-> TRUE]]
            /\ copied' = Len(arg.host)
            /\ worker' = [worker EXCEPT ![callNo] =
                            [st |-> "resolving", host |-> arg.host,
                             port |-> arg.port, val |-> NoResult]]
            /\ spawned' = spawned + 1
            /\ deadline' = now + timeout
            /\ pc' = "fb_recv"
            /\ results' = results
    /\ UNCHANGED <<fixed, it, callNo, now, arg, osRequests, lxVars, winVars>>

\* The worker's (v, port).to_socket_addrs().
WorkerResolve(c) ==
    /\ worker[c].st = "resolving"
    /\ LET w == worker[c]
           local == StdLocal(w.host, w.port)
       IN  IF local # NoResult
           THEN /\ worker' = [worker EXCEPT ![c].st = "resolved", ![c].val = local]
                /\ osRequests' = osRequests
           ELSE \E o \in OsOutcomeSet :
                    /\ worker' = [worker EXCEPT ![c].st = "resolved",
                                                ![c].val = StdOutcome(o, w.port)]
                    /\ osRequests' = osRequests + 1
    /\ UNCHANGED <<fixed, it, callNo, pc, now, results, arg, spawned, chan, copied,
                   deadline, lxVars, winVars>>

\* Whether the worker's tx.send(..) can go ahead: it waits while the slot
\* of sync_channel(1) is taken and a receiver exists, and fails at once
\* when the receiver is gone.
SendReadyRendezvous(c) ==
    ~chan[c].rx \/ (callNo = c /\ pc = "fb_recv" /\ Len(chan[c].buf) < 1)
SendReady(c) == ~chan[c].rx \/ Len(chan[c].buf) < 1

\* What tx.send(..) leaves in the buffer: the worker's result behind what
\* is there, or nothing new when the receiver is gone (the value comes
\* back in the error and is dropped).
SendIntoNothing(c) == chan[c].buf
SendInto(c) == IF chan[c].rx THEN Append(chan[c].buf, worker[c].val) ELSE chan[c].buf

\* The worker's tx.send(..), the last expression of its closure.
WorkerSend(c) ==
    /\ worker[c].st = "resolved"
    /\ SendReady(c)
    /\ chan' = [chan EXCEPT ![c].buf = SendInto(c)]
    /\ worker' = [worker EXCEPT ![c].st = "sent"]
    /\ UNCHANGED <<fixed, it, callNo, pc, now, results, arg, spawned, osRequests,
                   copied, deadline, lxVars, winVars>>

\* The closure ends: tx, which it had captured, is dropped and the thread
\* is over.
WorkerExit(c) ==
    /\ worker[c].st = "sent"
    /\ chan' = [chan EXCEPT ![c].tx = FALSE]
    /\ worker' = [worker EXCEPT ![c].st = "exited"]
    /\ UNCHANGED <<fixed, it, callNo, pc, now, results, arg, spawned, osRequests,
                   copied, deadline, lxVars, winVars>>

\* Which channel the bounded receive of call c reads.
RecvChanFirst(c) == 1
RecvChan(c) == c

\* Whether the bounded receive gives up: the bound has elapsed.
RecvGivesUpWhenWorkerDone(c) == now >= deadline /\ worker[c].st = "exited"
RecvGivesUp(c) == now >= deadline

\* rx.recv_timeout(timeout) and the match on it: a buffered value first,
\* then a disconnect, then the bound.
FbRecv ==
    /\ pc = "fb_recv"
    /\ LET ch == chan[RecvChan(callNo)]
       IN  IF ch.buf # <<>>
           THEN /\ Return(Head(ch.buf))
                /\ chan' = [chan EXCEPT ![RecvChan(callNo)].buf = Tail(@),
                                        ![callNo].rx = FALSE]
           ELSE IF ~ch.tx
           THEN /\ Return(Err("Panic", "unreachable"))
                /\ chan' = [chan EXCEPT ![callNo].rx = FALSE]
           ELSE /\ RecvGivesUp(callNo)
                /\ results' = [results EXCEPT ![callNo] = TimedOut]
                /\ pc' = "fb_ret"
                /\ chan' = chan
    /\ UNCHANGED <<fixed, it, callNo, now, arg, spawned, osRequests, worker, copied,
                   deadline, lxVars, winVars>>

\* resolve_timeout returns TimedOut: rx goes out of scope.
FbReturn ==
    /\ pc = "fb_ret"
    /\ pc' = "done"
    /\ chan' = [chan EXCEPT ![callNo].rx = FALSE]
    /\ UNCHANGED <<fixed, it, callNo, now, results, arg, spawned, osRequests,
                   worker, copied, deadline, lxVars, winVars>>

\* ------------------------------------------------------------ Linux engine
\* CString::new(hostname): refused when the name holds a NUL byte.
LxCStringAny(host) == TRUE
LxCString(host) == ~Contains(host, NUL)

\* gai_cancel on a request: one still queued is removed (EAI_CANCELED), one
\* a resolver thread is working on stays (EAI_NOTCANCELED), a finished one
\* is EAI_ALLDONE.
GaiCancelCodeLate(r) ==
    IF r.req = "queued" THEN "Canceled" ELSE "NotCanceled"
GaiCancelCode(r) ==
    IF r.req = "queued" THEN "Canceled"
    ELSE IF r.req = "running" THEN "NotCanceled"
    ELSE "AllDone"
GaiCancelTwice(r) ==
    [r EXCEPT !.req = IF r.req = "queued" THEN "canceled" ELSE @,
              !.cancels = @ + 2]
GaiCancel(r) ==
    [r EXCEPT !.req = IF r.req = "queued" THEN "canceled" ELSE @,
              !.cancels = @ + 1]

\* The request record goes out of scope with getaddrinfo_timeout's frame.
Release(r) == [r EXCEPT !.alive = FALSE]

\* From<AddressInfoError> for io::Error, for the codes gai_suspend returns.
LxError(code) ==
    IF code = "System" THEN Err("Os", "errno") ELSE Err("Other", code)

\* try_from's CString::new, then getaddrinfo_timeout up to its loop:
\* getaddrinfo_a(GAI_NOWAIT, ..), the guard and the deadline.
LxEnter ==
    /\ pc = "lx_enter"
    /\ IF ~LxCString(arg.host)
       THEN Return(InvalidInput) /\ UNCHANGED <<osRequests, lxVars>>
       ELSE \E accepted \in BOOLEAN :
                IF ~accepted
                THEN Return(LxError("Again")) /\ UNCHANGED <<osRequests, lxVars>>
                ELSE /\ lx' = [lx EXCEPT ![callNo] =
                                 [NoReq EXCEPT !.req = "queued", !.ret = "InProgress",
                                               !.alive = TRUE]]
                     /\ osRequests' = osRequests + 1
                     /\ endT' = now + timeout
                     /\ pc' = "lx_top"
                     /\ UNCHANGED <<results, sret, lh>>
    /\ UNCHANGED <<fixed, it, callNo, now, arg, spawned, fbVars, winVars>>

\* A resolver thread takes the queued request.
ResolverPickup(c) ==
    /\ lx[c].req = "queued"
    /\ lx' = [lx EXCEPT ![c].req = "running"]
    /\ UNCHANGED <<fixed, it, callNo, pc, now, results, arg, spawned, osRequests,
                   fbVars, endT, sret, lh, winVars>>

\* The resolver thread finishes: it stores the result list and the status
\* in the request record, wherever that record's storage now is.
ResolverComplete(c) ==
    /\ lx[c].req = "running"
    /\ \E o \in OsOutcomeSet :
           lx' = [lx EXCEPT
                    ![c].req = "done",
                    ![c].list = IF o.ok THEN "allocated" ELSE @,
                    ![c].content = o.list,
                    ![c].addrinfo = IF o.ok /\ lx[c].alive THEN "list" ELSE @,
                    ![c].ret = IF ~lx[c].alive THEN @
                               ELSE IF o.ok THEN "Success" ELSE "NoName",
                    ![c].uaf = ~lx[c].alive]
    /\ UNCHANGED <<fixed, it, callNo, pc, now, results, arg, spawned, osRequests,
                   fbVars, endT, sret, lh, winVars>>

\* The head of the loop: the deadline check, then gai_suspend's entry, which
\* returns EAI_ALLDONE at once when the request is no longer in progress.
LxTop ==
    /\ pc = "lx_top"
    /\ IF now > endT
       THEN /\ Return(TimedOut)
            /\ lx' = [lx EXCEPT ![callNo] = Release(GaiCancel(@))]
            /\ sret' = sret
       ELSE /\ results' = results
            /\ lx' = lx
            /\ IF lx[callNo].req = "done"
               THEN sret' = "AllDone" /\ pc' = "lx_woke"
               ELSE sret' = sret /\ pc' = "lx_suspend"
    /\ UNCHANGED <<fixed, it, callNo, now, arg, spawned, osRequests, fbVars, endT, lh,
                   winVars>>

\* What gai_suspend can return from its wait: 0 when it was woken (by the
\* request's completion, or for no reason), EAI_AGAIN once the time it was
\* given has run out, and an interruption, reported as EAI_INTR or as
\* EAI_SYSTEM with errno EINTR.
SuspendReturns ==
    {"Zero", "Intr", "SystemEintr"} \cup (IF now >= endT THEN {"Again"} ELSE {})

LxSuspend ==
    /\ pc = "lx_suspend"
    /\ \E r \in SuspendReturns : sret' = r
    /\ pc' = "lx_woke"
    /\ UNCHANGED <<fixed, it, callNo, now, results, arg, spawned, osRequests, fbVars,
                   lx, endT, lh, winVars>>

\* The LookupHost built from the request record.
LxLookupHost(r) == [original |-> r.addrinfo, port |-> 0]

\* The rest of the loop body, on gai_suspend's return value.
LxWoke ==
    /\ pc = "lx_woke"
    /\ LET r == lx[callNo]
       IN  IF sret = "Zero"
           THEN IF r.ret = "Success"
                THEN /\ lh' = LxLookupHost(r)
                     /\ lx' = [lx EXCEPT ![callNo] = Release(GaiCancel(r))]
                     /\ pc' = "lx_collect"
                     /\ results' = results
                ELSE pc' = "lx_top" /\ UNCHANGED <<lx, lh, results>>
           ELSE IF sret = "SystemEintr"
           THEN pc' = "lx_top" /\ UNCHANGED <<lx, lh, results>>
           ELSE /\ lx' = [lx EXCEPT ![callNo] = Release(GaiCancel(r))]
                /\ IF GaiCancelCode(r) = "AllDone"
                   THEN /\ lh' = LxLookupHost(r)
                        /\ pc' = "lx_collect"
                        /\ results' = results
                   ELSE Return(LxError(sret)) /\ lh' = lh
    /\ UNCHANGED <<fixed, it, callNo, now, arg, spawned, osRequests, fbVars, endT, sret,
                   winVars>>

\* freeaddrinfo(original), from LookupHost's drop.
FreeAddrInfo(r, original) ==
    IF original = "list"
    THEN [r EXCEPT !.list = "freed", !.frees = @ + 1]
    ELSE r

\* try_from sets the port, resolve_socket_addr collects the addresses and
\* drops the LookupHost.
LxCollect ==
    /\ pc = "lx_collect"
    /\ LET r == lx[callNo]
           me == [lh EXCEPT !.port = arg.port]
       IN  /\ Return(Ok(IF me.original = "list" THEN Addrs(r.content, me.port)
                        ELSE <<>>))
           /\ lx' = [lx EXCEPT ![callNo] = FreeAddrInfo(r, me.original)]
           /\ lh' = me
    /\ UNCHANGED <<fixed, it, callNo, now, arg, spawned, osRequests, fbVars, endT, sret,
                   winVars>>

\* ---------------------------------------------------------- Windows engine
\* to_wide: refused when the name holds a NUL byte.
to_wide_ok(host) == ~Contains(host, NUL)

\* What GetAddrInfoExW reports, at once or to the completion routine:
\* ERROR_SUCCESS with a result list, or an error code.
WinCodeSet == {"Success", "HostNotFound", "TimedOut"}

\* io::Error::from_raw_os_error(code)
WinError(code) == IF code = "TimedOut" THEN TimedOut ELSE Err("Os", code)

\* How a request ends: ERROR_SUCCESS with a result list stored through the
\* pointer the OS was given, or an error code, with or without a list
\* stored before the error.
WinOutcomeSet ==
    [code : {"Success"}, list : OsListSet]
        \cup [code : WinCodeSet \ {"Success"}, list : OsListSet \cup {NoList}]

\* The request completes: the OS has stored the result list, if any, and
\* the completion routine is entered.
Completed(ctx, o, by) ==
    [ctx EXCEPT !.query_result = IF o.list # NoList THEN "list" ELSE "null",
                !.list = IF o.list # NoList THEN "allocated" ELSE @,
                !.content = o.list,
                !.os = "done", !.cb = "entered", !.code = o.code, !.by = by,
                !.runs = @ + 1]

\* The Context after GetAddrInfoExW has returned: left to the OS when it
\* reported WSA_IO_PENDING, otherwise the completion routine called inline.
IssuedAlwaysInline(ctx, pending, o) ==
    [Completed(ctx, o, "inline") EXCEPT !.os = IF pending THEN "pending" ELSE "done"]
Issued(ctx, pending, o) ==
    IF pending THEN [ctx EXCEPT !.os = "pending"] ELSE Completed(ctx, o, "inline")

\* to_wide, then getaddrinfo_timeout up to its wait: init(), Context::new(),
\* GetAddrInfoExW and, unless it reports WSA_IO_PENDING, the completion
\* routine called inline.
WinEnter ==
    /\ pc = "win_enter"
    /\ IF ~to_wide_ok(arg.host)
       THEN Return(InvalidInput) /\ UNCHANGED <<osRequests, winVars>>
       ELSE /\ wsaInit' = TRUE
            /\ \E created \in BOOLEAN :
                 IF ~created
                 THEN /\ Return(Err("Os", "CreateEventW"))
                      /\ osRequests' = osRequests + (IF wsaInit THEN 0 ELSE 1)
                      /\ win' = win
                 ELSE /\ osRequests' = osRequests + (IF wsaInit THEN 1 ELSE 2)
                      /\ pc' = "win_wait"
                      /\ results' = results
                      /\ \E pending \in BOOLEAN, o \in WinOutcomeSet :
                           LET ctx == [NoCtx EXCEPT !.event = "unset",
                                                   !.result = Err("Other", "placeholder")]
                           IN  win' = [win EXCEPT ![callNo] = Issued(ctx, pending, o)]
    /\ UNCHANGED <<fixed, it, callNo, now, arg, spawned, fbVars, lxVars>>

\* The OS completes a pending request and calls the completion routine.
OsComplete(c) ==
    /\ win[c].os = "pending"
    /\ \E o \in WinOutcomeSet : win' = [win EXCEPT ![c] = Completed(@, o, "os")]
    /\ UNCHANGED <<fixed, it, callNo, pc, now, results, arg, spawned, osRequests,
                   fbVars, lxVars, wsaInit>>

\* query_complete_callback up to set_event: the LookupHost is taken from
\* query_result, which is cleared, and the outcome is stored; on an error
\* the LookupHost is dropped, which frees the list.
CbRecordKeepsList(c) ==
    /\ win[c].cb = "entered"
    /\ LET ctx == win[c]
       IN  win' = [win EXCEPT ![c] =
                     [ctx EXCEPT !.query_result = "null",
                                 !.lhOriginal = IF ctx.code = "Success"
                                                THEN ctx.query_result ELSE "none",
                                 !.result = IF ctx.code = "Success" THEN Ok(<<>>)
                                            ELSE WinError(ctx.code),
                                 !.cb = "recorded"]]
    /\ UNCHANGED <<fixed, it, callNo, pc, now, results, arg, spawned, osRequests,
                   fbVars, lxVars, wsaInit>>
CbRecordSignalsFirst(c) ==
    /\ win[c].cb = "entered"
    /\ win' = [win EXCEPT ![c].event = "set", ![c].cb = "signalled"]
    /\ UNCHANGED <<fixed, it, callNo, pc, now, results, arg, spawned, osRequests,
                   fbVars, lxVars, wsaInit>>
CbRecord(c) ==
    /\ win[c].cb = "entered"
    /\ LET ctx == win[c]
           original == ctx.query_result
       IN  win' = [win EXCEPT ![c] =
                     IF ctx.code = "Success"
                     THEN [ctx EXCEPT !.query_result = "null",
                                      !.lhOriginal = original,
                                      !.result = Ok(<<>>), !.cb = "recorded"]
                     ELSE [ctx EXCEPT !.query_result = "null",
                                      !.result = WinError(ctx.code),
                                      !.list = IF original = "list" THEN "freed" ELSE @,
                                      !.frees = IF original = "list" THEN @ + 1 ELSE @,
                                      !.cb = "recorded"]]
    /\ UNCHANGED <<fixed, it, callNo, pc, now, results, arg, spawned, osRequests,
                   fbVars, lxVars, wsaInit>>

\* ctx.set_event(), the last thing the completion routine does.
CbSignal(c) ==
    /\ win[c].cb = "recorded"
    /\ win' = [win EXCEPT ![c].event = "set", ![c].cb = "returned"]
    /\ UNCHANGED <<fixed, it, callNo, pc, now, results, arg, spawned, osRequests,
                   fbVars, lxVars, wsaInit>>

\* WaitForSingleObject(complete_event, INFINITE) returns once the event is
\* set, however long that takes.
WaitReturnsOnTimeout(ctx) == ctx.event = "set" \/ now > timeout
WaitReturns(ctx) == ctx.event = "set"

\* The placeholder Context::new() stores in result, and the local that
\* getaddrinfo_timeout swaps with it.
Placeholder == Err("Other", "placeholder")

\* mem::swap(&mut ctx.result, &mut result); result: what the Context held
\* comes out, the local placeholder goes in.
SwappedLocal(ctx) == Placeholder
Swapped(ctx) == ctx.result

\* The wait returns, the outcome is swapped out of the Context and the
\* Context is dropped, which closes the event.
WinWait ==
    /\ pc = "win_wait"
    /\ WaitReturns(win[callNo])
    /\ LET ctx == win[callNo]
           result == Swapped(ctx)
       IN  /\ win' = [win EXCEPT ![callNo].event = "closed",
                                 ![callNo].result = Placeholder]
           /\ IF result.kind = "Ok"
              THEN /\ lh' = [original |-> ctx.lhOriginal, port |-> 0]
                   /\ pc' = "win_collect"
                   /\ results' = results
              ELSE Return(result) /\ lh' = lh
    /\ UNCHANGED <<fixed, it, callNo, now, arg, spawned, osRequests, fbVars, lx, endT,
                   sret, wsaInit>>

\* try_from sets the port, resolve_socket_addr collects the addresses and
\* drops the LookupHost (FreeAddrInfoExW).
WinCollect ==
    /\ pc = "win_collect"
    /\ LET ctx == win[callNo]
           me == [lh EXCEPT !.port = arg.port]
       IN  /\ Return(Ok(IF me.original = "list" THEN Addrs(ctx.content, me.port)
                        ELSE <<>>))
           /\ win' = [win EXCEPT ![callNo].list = IF me.original = "list"
                                                  THEN "freed" ELSE @,
                                 ![callNo].frees = IF me.original = "list"
                                                   THEN @ + 1 ELSE @]
           /\ lh' = me
    /\ UNCHANGED <<fixed, it, callNo, now, arg, spawned, osRequests, fbVars, lx, endT,
                   sret, wsaInit>>

Next ==
    \/ Call
    \/ Again
    \/ Tick
    \/ FbEnter
    \/ \E c \in Calls : WorkerResolve(c)
    \/ \E c \in Calls : WorkerSend(c)
    \/ \E c \in Calls : WorkerExit(c)
    \/ FbRecv
    \/ FbReturn
    \/ LxEnter
    \/ \E c \in Calls : ResolverPickup(c)
    \/ \E c \in Calls : ResolverComplete(c)
    \/ LxTop
    \/ LxSuspend
    \/ LxWoke
    \/ LxCollect
    \/ WinEnter
    \/ \E c \in Calls : OsComplete(c)
    \/ \E c \in Calls : CbRecord(c)
    \/ \E c \in Calls : CbSignal(c)
    \/ WinWait
    \/ WinCollect

Spec == Init /\ [][Next]_vars

\* The build that selects the thread-fallback engine (lib.rs: mod fallback),
\* on its own: the calls, the clock and the workers.
InitFallback == Init /\ engine = "fallback"
NextFallback ==
    \/ Call
    \/ Again
    \/ Tick
    \/ FbEnter
    \/ \E c \in Calls : WorkerResolve(c)
    \/ \E c \in Calls : WorkerSend(c)
    \/ \E c \in Calls : WorkerExit(c)
    \/ FbRecv
    \/ FbReturn
SpecFallback == InitFallback /\ [][NextFallback]_vars

\* The Linux engine (linux_glibc.rs) on its own: the calls, the clock, the
\* resolver threads of glibc and the caller's wait loop.  The engine looks
\* at the host name only for a NUL byte, so it is entered with (host, port)
\* pairs of one name with and one without.
LinuxNames == { <<"h">>, <<"h", NUL, "g">> }
InitLinux ==
    /\ Init
    /\ engine = "linux"
    /\ input.origin.kind = "pairname"
    /\ input.origin.host \in LinuxNames
NextLinux ==
    \/ Call
    \/ Again
    \/ Tick
    \/ LxEnter
    \/ \E c \in Calls : ResolverPickup(c)
    \/ \E c \in Calls : ResolverComplete(c)
    \/ LxTop
    \/ LxSuspend
    \/ LxWoke
    \/ LxCollect
SpecLinux == InitLinux /\ [][NextLinux]_vars

\* The Windows engine (windows.rs) on its own: the calls, the clock, the
\* OS's completion of the request and the completion routine.  The engine
\* looks at the host name only for a NUL byte (to_wide), so it is entered
\* with (host, port) pairs of one name with and one without.
WindowsNames == { <<"h">>, <<"h", NUL, "g">> }
InitWindows ==
    /\ Init
    /\ engine = "windows"
    /\ input.origin.kind = "pairname"
    /\ input.origin.host \in WindowsNames
NextWindows ==
    \/ Call
    \/ Again
    \/ Tick
    \/ WinEnter
    \/ \E c \in Calls : OsComplete(c)
    \/ \E c \in Calls : CbRecord(c)
    \/ \E c \in Calls : CbSignal(c)
    \/ WinWait
    \/ WinCollect
SpecWindows == InitWindows /\ [][NextWindows]_vars

\* The Windows engine with its scheduling: the OS completes every pending
\* request and calls the routine, the routine runs to its end, and the
\* caller's thread runs when its wait is over.
SpecWindowsFair ==
    /\ SpecWindows
    /\ WF_vars(\E c \in Calls : OsComplete(c))
    /\ WF_vars(\E c \in Calls : CbRecord(c))
    /\ WF_vars(\E c \in Calls : CbSignal(c))
    /\ WF_vars(WinWait)
    /\ WF_vars(WinCollect)

\* A LookupHost on its own (linux_glibc.rs and windows.rs share the
\* iterator): the caller of next() walks a result list of the OS, of any
\* mix of families and up to MaxList records, and goes on calling after
\* the end, up to MaxNone times.
IterRecs == { Rec("other", <<>>, 0), Rec("v4", <<9, 9, 9, 9>>, 0),
              Rec("v6", <<0, 0, 0, 0, 0, 0, 0, 9>>, 53) }
IterLists == UNION { [1..n -> IterRecs] : n \in 0..MaxList }
Nones(rets) == Len(SelectSeq(rets, LAMBDA r : r = None))
InitIter ==
    /\ InitCalls
    /\ engine \in {"linux", "windows"}
    /\ input.origin.kind = "pairname"
    /\ input.origin.host = <<"h">>
    /\ \E list \in IterLists :
         it = [list |-> list, cur |-> 1, rets |-> <<>>,
               visits |-> [i \in 1..Len(list) |-> 0]]
\* One call of next(): the records from the cursor up to the one returned
\* are the ones it dereferenced.
IterNext ==
    /\ it.cur > 0
    /\ Nones(it.rets) < MaxNone
    /\ LET r == LookupHostNext(it.list, it.cur)
       IN  it' = [it EXCEPT !.cur = r.cur,
                            !.rets = Append(@, r.item),
                            !.visits = [i \in 1..Len(it.list) |->
                                          @[i] + IF it.cur <= i /\ i < r.cur
                                                 THEN 1 ELSE 0]]
    /\ UNCHANGED <<fixed, callNo, pc, now, results, arg, spawned, osRequests,
                   fbVars, lxVars, winVars>>
NextIter == IterNext
SpecIter == InitIter /\ [][NextIter]_vars
\* ================================================================== claims
Returned(c) == results[c] # NoResult
OriginAddr ==
    [fam |-> IF input.origin.kind \in {"sockv4", "pairv4", "barev4"} THEN "v4" ELSE "v6",
     ip |-> input.origin.ip, port |-> input.origin.port]

\* Targets that are a socket-address literal ("a.b.c.d:port", "[v6]:port")
\* or a pair whose host is an address literal.
SocketLiteralKinds == {"sockv4", "sockv6", "pairv4", "pairv6"}
\* String targets that are an address literal with or without a ":port".
LiteralStringKinds == {"sockv4", "sockv6", "barev4", "barev6", "v6port"}
\* Targets whose host portion is an address literal.
LiteralHostKinds == {"sockv4", "sockv6", "v6port", "pairv4", "pairv6"}

\* C1, as stated: every string target that is an IPv4 or IPv6 literal with
\* an optional ":port" suffix returns Ok with exactly one address, the
\* parsed literal, for every timeout.
C1_AnyLiteralString ==
    \A c \in Calls :
        (input.origin.kind \in LiteralStringKinds /\ Returned(c))
            => /\ results[c].kind = "Ok"
               /\ Len(results[c].addrs) = 1
               /\ results[c].addrs[1].ip = input.origin.ip

\* C1, amended: every string target that is a socket-address literal
\* ("a.b.c.d:port" or "[v6]:port") and every (host, port) pair whose host is
\* an IPv4 or IPv6 literal returns Ok with exactly one address, the address
\* and port the target was written from, for every timeout including zero.
C1_SocketLiteral ==
    \A c \in Calls :
        (input.origin.kind \in SocketLiteralKinds /\ Returned(c))
            => results[c] = Ok(<<OriginAddr>>)

C1_Witness ==
    /\ input.origin.kind = "sockv6"
    /\ timeout = 0
    /\ pc = "done"
    /\ results[callNo] = Ok(<<OriginAddr>>)

\* C2, as stated: for a "host:port" string or a (host, port) pair whose host
\* portion is an IPv4 or IPv6 literal no worker is spawned and no resolver
\* request is submitted, and a repeated call returns the same.
C2_AnyLiteralHost ==
    input.origin.kind \in LiteralHostKinds
        => /\ spawned = 0
           /\ osRequests = 0
           /\ \A c, d \in Calls : (Returned(c) /\ Returned(d)) => results[c] = results[d]

\* C2, amended: for a string that is a socket-address literal as a whole
\* ("a.b.c.d:port" or "[v6]:port") and for a (host, port) pair whose host is
\* an IPv4 or IPv6 literal, no worker is spawned and no resolver request is
\* submitted, for every timeout including zero, and a repeated call returns
\* the same result.
C2_NoResolver ==
    input.origin.kind \in SocketLiteralKinds
        => /\ spawned = 0
           /\ osRequests = 0
           /\ \A c, d \in Calls : (Returned(c) /\ Returned(d)) => results[c] = results[d]

C2_Witness ==
    /\ input.origin.kind = "pairv6"
    /\ timeout = 0
    /\ callNo = 2
    /\ pc = "done"
    /\ results[1] = results[2]
    /\ results[2].kind = "Ok"

\* C3: in the fallback engine, when the bound has elapsed and the worker has
\* sent nothing, the bounded receive can return at once, whatever the worker
\* is doing, and what it returns is TimedOut.
C3_TimeoutWithoutWorker ==
    (engine = "fallback" /\ pc = "fb_recv" /\ chan[callNo].buf = <<>>
        /\ now >= deadline)
        => ENABLED (FbRecv /\ results'[callNo] = TimedOut)

C3_Witness ==
    /\ engine = "fallback"
    /\ pc = "done"
    /\ results[callNo] = TimedOut
    /\ worker[callNo].st = "resolving"

\* C4, as stated: in the Linux engine, when gai_suspend reports that its
\* time ran out before the request completed, gai_cancel is issued and the
\* call returns an error of kind TimedOut.
C4_SuspendTimeoutIsTimedOut ==
    (engine = "linux" /\ pc = "done" /\ sret = "Again"
        /\ lx[callNo].req \in {"canceled", "running"})
        => /\ lx[callNo].cancels >= 1
           /\ results[callNo].kind = "TimedOut"

\* C5, as stated: in the Linux engine the request record is never released
\* while the resolver may still write into it.
C5_RecordOutlivesRequest ==
    \A c \in Calls : lx[c].req \in {"queued", "running"} => lx[c].alive

\* C6, as stated: in the Linux engine, once the call has returned and the
\* iterator is dropped, no result list of the request remains allocated and
\* none was freed twice.
C6_ListFreedOnce ==
    \A c \in Calls :
        (engine = "linux" /\ Returned(c) /\ (c < callNo \/ pc = "done"))
            => lx[c].list # "allocated" /\ lx[c].frees <= 1

\* C7: in the fallback engine a call that spawned its worker returns either
\* TimedOut or the value its own worker sent, unchanged; what a call
\* returned never changes; and a value sent after the caller timed out stays
\* where it is, seen by no call.
C7_Outcome ==
    \A c \in Calls :
        (engine = "fallback" /\ worker[c].st # "none" /\ Returned(c))
            => \/ results[c] = TimedOut
               \/ /\ worker[c].st \in {"sent", "exited"}
                  /\ results[c] = worker[c].val
                  /\ chan[c].buf = <<>>
C7_Once ==
    \A c \in Calls : Returned(c) => results'[c] = results[c]
C7_Late ==
    \A c \in Calls :
        (Returned(c) /\ results[c] = TimedOut) => Len(chan'[c].buf) >= Len(chan[c].buf)
C7_OneOutcome == []C7_Outcome /\ [][C7_Once /\ C7_Late]_vars

C7_Witness ==
    /\ engine = "fallback"
    /\ results[1] = TimedOut
    /\ chan[1].buf # <<>>
    /\ callNo = 2
    /\ pc = "done"
    /\ results[2] = worker[2].val

\* C8: in the fallback engine a host longer than 253 octets returns
\* InvalidInput with no worker and no channel; a host of exactly 253 octets
\* gets its worker; and never more than 253 octets are copied into the
\* buffer.
C8_HostLength ==
    engine = "fallback"
        => /\ copied <= BufferCap
           /\ \A c \in Calls :
                (Len(input.origin.host) > MaxHostLen /\ Returned(c))
                    => /\ results[c] = InvalidInput
                       /\ worker[c] = NoWorker
                       /\ chan[c] = NoChan
           /\ (Len(input.origin.host) = MaxHostLen /\ input.origin.kind = "pairname"
                 /\ pc \notin {"start", "fb_enter"})
                    => worker[callNo].st # "none" /\ copied = MaxHostLen

C8_Witness ==
    /\ engine = "fallback"
    /\ Len(input.origin.host) = MaxHostLen + 1
    /\ input.origin.kind = "pairname"
    /\ pc = "done"
    /\ results[callNo] = InvalidInput
    /\ spawned = 0

\* C9: a string target that is no socket-address literal returns
\* InvalidInput, with no worker and no resolver request, when it has no
\* colon or when the text after its last colon is no 16-bit port number;
\* otherwise the engine is entered with everything before the last colon as
\* the host and that number as the port.
ValidPortTexts == {Dec(80), SignedPortText}
C9_Split ==
    /\ (input.origin.kind = "nocolon"
          \/ (input.origin.kind = "hostport" /\ input.origin.ptxt \notin ValidPortTexts))
        => /\ spawned = 0
           /\ osRequests = 0
           /\ \A c \in Calls : Returned(c) => results[c] = InvalidInput
           /\ arg = NoArg
    /\ (input.origin.kind = "hostport" /\ input.origin.ptxt \in ValidPortTexts
          /\ pc # "start")
        => arg = [host |-> input.origin.host, port |-> 80]
    /\ (input.origin.kind = "v6port" /\ pc # "start")
        => arg = [host |-> FmtV6(input.origin.ip), port |-> input.origin.port]

C9_Witness ==
    /\ input.origin.kind = "hostport"
    /\ input.origin.ptxt = Dec(U16Max + 1)
    /\ Contains(input.origin.host, ":")
    /\ pc = "done"
    /\ results[callNo] = InvalidInput

\* C10, as stated: a target whose host name holds a NUL byte returns
\* InvalidInput in every engine and for every timeout, with no worker
\* spawned and no resolver request submitted; it never returns TimedOut.
C10_NulRejectedFirst ==
    Contains(input.origin.host, NUL)
        => /\ spawned = 0
           /\ osRequests = 0
           /\ \A c \in Calls : Returned(c) => results[c] = InvalidInput

\* The port the caller asked for, read off what the target was written from.
RequestedPort ==
    IF input.origin.kind = "hostport" THEN NumVal(Dec(80), 10, U16Max)
    ELSE input.origin.port
EngineKinds == {"pairname", "hostport", "v6port"}

\* C11: every address of a successful resolution through the Linux or the
\* Windows engine carries the port the caller asked for, whatever port the
\* OS record carried.
C11_CallerPort ==
    \A c \in Calls :
        (engine \in {"linux", "windows"} /\ input.origin.kind \in EngineKinds
            /\ results[c].kind = "Ok")
            => \A i \in 1..Len(results[c].addrs) :
                   results[c].addrs[i].port = RequestedPort

C11_Witness ==
    /\ engine = "linux"
    /\ input.origin.kind = "v6port"
    /\ input.origin.port = U16Max
    /\ pc = "done"
    /\ results[callNo].kind = "Ok"
    /\ Len(results[callNo].addrs) = 2
    /\ lx[callNo].content[3].port # U16Max

\* C12, as stated: in the Linux engine a call that submitted its request
\* returns Ok only when the request's final status is success; a request
\* that ended with a resolver error is never returned as Ok.
C12_OkOnlyOnSuccess ==
    \A c \in Calls :
        (engine = "linux" /\ lx[c].req # "none" /\ results[c].kind = "Ok")
            => lx[c].ret = "Success"

\* C13: in the Windows engine the caller swaps the outcome out of the
\* Context and closes the event only when the completion routine has
\* stored its outcome and signalled; what the caller reads is what the
\* routine stored; and after signalling the routine writes nothing more to
\* the Context.
C13_Released ==
    \A c \in Calls : win[c].event = "closed" => win[c].cb = "returned"
C13_Read ==
    \A c \in Calls :
        (win[c].event # "closed" /\ win'[c].event = "closed")
            => /\ win[c].cb = "returned"
               /\ win[c].event = "set"
               /\ \/ results'[c] = win[c].result
                  \/ win[c].result.kind = "Ok" /\ lh'.original = win[c].lhOriginal
C13_Quiet ==
    \A c \in Calls :
        win[c].cb = "returned"
            => /\ win'[c].cb = "returned"
               /\ win'[c].query_result = win[c].query_result
               /\ win'[c].lhOriginal = win[c].lhOriginal
               /\ win'[c].event # "unset"
               /\ win'[c].result # win[c].result => win'[c].event = "closed"
C13_HandOff == []C13_Released /\ [][C13_Read /\ C13_Quiet]_vars

C13_Witness ==
    /\ engine = "windows"
    /\ pc = "done"
    /\ win[callNo].by = "os"
    /\ win[callNo].event = "closed"
    /\ win[callNo].cb = "returned"
    /\ results[callNo].kind = "Ok"
    /\ results[callNo].addrs # <<>>

\* C14: in the Windows engine the completion routine runs once per request:
\* inline when GetAddrInfoExW reports anything but pending, by the OS when
\* it reports pending, never both, and a call that came back from the
\* engine's wait has had it run.
C14_Runs ==
    \A c \in Calls :
        /\ win[c].runs <= 1
        /\ win[c].os = "pending" => win[c].runs = 0
        /\ win[c].os = "done" => win[c].runs = 1 /\ win[c].by \in {"inline", "os"}
        /\ win[c].event \in {"set", "closed"} => win[c].runs = 1
C14_By ==
    \A c \in Calls :
        /\ (win[c].os = "none" /\ win'[c].os = "done") => win'[c].by = "inline"
        /\ (win[c].os = "pending" /\ win'[c].os = "done") => win'[c].by = "os"
        /\ win[c].os = "done" => win'[c].by = win[c].by /\ win'[c].os = "done"
C14_ExactlyOnce == []C14_Runs /\ [][C14_By]_vars

C14_Witness ==
    /\ engine = "windows"
    /\ callNo = 2
    /\ pc = "done"
    /\ win[1].by = "inline"
    /\ win[2].by = "os"
    /\ win[1].runs = 1
    /\ win[2].runs = 1

\* C15: the Windows engine's wait has no timeout of its own.  A call that
\* issued its request comes back from the wait only with the event
\* signalled by the completion routine, and while the event is not
\* signalled the wait cannot return, however far the clock is past the
\* caller's timeout; once the request completes, at once or by the OS, the
\* waiting call returns.
C15_OnlySignalled ==
    /\ (engine = "windows" /\ pc = "win_wait" /\ win[callNo].event = "unset")
            => ~ENABLED WinWait
    /\ (engine = "windows" /\ pc \in {"win_collect", "done"}
          /\ win[callNo].os # "none")
            => win[callNo].cb = "returned" /\ win[callNo].event = "closed"
C15_ReturnsIffSignalled ==
    /\ []C15_OnlySignalled
    /\ (pc = "win_wait") ~> (pc = "done")

C15_Witness ==
    /\ engine = "windows"
    /\ pc = "win_wait"
    /\ win[callNo].os = "pending"
    /\ win[callNo].event = "unset"
    /\ now > timeout

\* C16: in the Windows engine the result list the OS stored is freed once,
\* and by one side only: when the request failed, by the completion
\* routine, which leaves the Context's pointer cleared; when it succeeded,
\* by the drop of the iterator during the caller's collection; once the
\* call has returned no list is left allocated.
C16_Freed ==
    \A c \in Calls :
        /\ win[c].frees <= 1
        /\ (win[c].list = "freed") <=> (win[c].frees = 1)
        /\ win[c].cb \in {"recorded", "returned"} => win[c].query_result = "null"
        /\ (win[c].cb \in {"recorded", "returned"} /\ win[c].code # "Success")
              => win[c].list # "allocated" /\ win[c].lhOriginal = "none"
        /\ (win[c].code = "Success" /\ win[c].list = "freed")
              => Returned(c) /\ results[c].kind = "Ok"
        /\ (engine = "windows" /\ Returned(c) /\ (c < callNo \/ pc = "done"))
              => win[c].list # "allocated"

C16_Witness ==
    /\ engine = "windows"
    /\ callNo = 2
    /\ pc = "done"
    /\ win[1].code = "HostNotFound"
    /\ win[1].list = "freed"
    /\ win[1].frees = 1
    /\ win[2].code = "Success"
    /\ win[2].list = "freed"
    /\ win[2].frees = 1

\* C17: in the Linux engine, once getaddrinfo_a has accepted the request,
\* leaving getaddrinfo_timeout issues gai_cancel on it exactly once,
\* whichever exit is taken, and none is issued before; when the submission
\* fails the error is returned at once, with no request and no
\* cancellation.
LxLeft(c) == c < callNo \/ pc \in {"lx_collect", "done"}
C17_CancelOnce ==
    engine = "linux" =>
        \A c \in Calls :
            /\ lx[c].req = "none" => lx[c].cancels = 0
            /\ (lx[c].req # "none" /\ LxLeft(c)) => lx[c].cancels = 1
            /\ (lx[c].req # "none" /\ ~LxLeft(c)) => lx[c].cancels = 0
            /\ (Returned(c) /\ results[c] = LxError("Again") /\ lx[c].req = "none")
                  => lx[c].cancels = 0 /\ ~lx[c].alive

C17_Witness ==
    /\ engine = "linux"
    /\ callNo = 2
    /\ pc = "done"
    /\ results[1] = TimedOut
    /\ lx[1].cancels = 1
    /\ results[2].kind = "Ok"
    /\ lx[2].cancels = 1

\* C18, as stated: in the Linux engine the deadline is fixed once, no
\* gai_suspend is started after the deadline has passed, gai_suspend
\* reports that its time ran out only at or after the deadline, and an
\* interrupted wake goes back to the head of the loop instead of ending the
\* call.
LxLoopPcs == {"lx_top", "lx_suspend", "lx_woke"}
InterruptedWakes == {"Intr", "SystemEintr"}
C18_Step ==
    /\ (pc \in LxLoopPcs /\ pc' \in LxLoopPcs) => endT' = endT
    /\ (pc = "lx_top" /\ pc' \in {"lx_suspend", "lx_woke"}) => now <= endT
    /\ (pc = "lx_suspend" /\ pc' = "lx_woke" /\ sret' = "Again") => now >= endT
    /\ (pc = "lx_woke" /\ sret \in InterruptedWakes /\ pc' # pc)
          => pc' = "lx_top" /\ results' = results
C18_FixedDeadline == [][C18_Step]_vars

\* C19, as stated: in the Linux engine, when gai_suspend returned 0 the
\* request's status is read: the in-progress sentinel starts another
\* iteration and reaches the caller neither as success nor as an error,
\* success ends the wait with the list, and a resolver error ends the wait
\* with that error.
C19_Step ==
    (pc = "lx_woke" /\ sret = "Zero" /\ pc' # pc)
        => LET r == lx[callNo]
           IN  /\ r.ret = "InProgress" => pc' = "lx_top" /\ results' = results
               /\ r.ret = "Success"
                     => pc' = "lx_collect" /\ lh'.original = r.addrinfo
               /\ r.ret \notin {"InProgress", "Success"}
                     => pc' = "done" /\ results'[callNo] = LxError(r.ret)
C19_StatusRead == [][C19_Step]_vars

\* C20: in the Linux engine, when gai_suspend ended with a status that is
\* neither 0 nor an EINTR to retry, and the request had completed by the
\* time of gai_cancel, the list in the request record is handed to the
\* LookupHost, which the collection frees once; when the request had not
\* completed the call returns the suspend's error and no LookupHost is
\* made.
SuspendFailures == {"AllDone", "Again", "Intr"}
C20_Step ==
    (pc = "lx_woke" /\ sret \in SuspendFailures /\ pc' # pc)
        => LET r == lx[callNo]
           IN  /\ r.req = "done"
                     => /\ pc' = "lx_collect"
                        /\ lh'.original = r.addrinfo
                        /\ results' = results
               /\ r.req # "done"
                     => /\ pc' = "done"
                        /\ results'[callNo] = LxError(sret)
                        /\ lh' = NoLh
C20_Owned ==
    (engine = "linux" /\ pc = "done" /\ sret \in SuspendFailures
        /\ results[callNo].kind = "Ok")
        => /\ lx[callNo].list # "allocated"
           /\ lx[callNo].frees <= 1
           /\ lh.original = lx[callNo].addrinfo
C20_LateCompletion == []C20_Owned /\ [][C20_Step]_vars

C20_Witness ==
    /\ engine = "linux"
    /\ pc = "done"
    /\ sret = "Again"
    /\ results[callNo].kind = "Ok"
    /\ results[callNo].addrs # <<>>
    /\ lx[callNo].list = "freed"
    /\ lx[callNo].frees = 1

\* C21: LookupHost::next yields, in list order, exactly the records whose
\* family is IPv4 or IPv6: what the calls have returned so far is the
\* addresses of the IPv4 and IPv6 records before the cursor, in their
\* order, followed by nothing but None; a record of another family is
\* passed over without a None; no record is looked at twice; None is
\* returned only with the cursor at the end of the list, and every call
\* after it returns None again.  A whole walk yields the addresses the
\* engines collect.
KnownFamily(r) == r.fam \in {"v4", "v6"}
AddrOf(r) == IF r.fam = "v4" THEN SockV4(r.ip, r.port) ELSE SockV6(r.ip, r.port)
Yielded(list, n) ==
    LET known == SelectSeq(SubSeq(list, 1, n), KnownFamily)
    IN  [i \in 1..Len(known) |-> Some(AddrOf(known[i]))]
C21_Walk ==
    it.cur > 0 =>
        LET n == it.cur - 1
            somes == Yielded(it.list, n)
            k == Len(it.rets) - Len(somes)
        IN  /\ n <= Len(it.list)
            /\ k >= 0
            /\ it.rets = somes \o [i \in 1..k |-> None]
            /\ k > 0 => n = Len(it.list)
            /\ \A i \in 1..Len(it.list) : it.visits[i] = IF i <= n THEN 1 ELSE 0
            /\ n = Len(it.list) =>
                 [i \in 1..Len(somes) |-> [somes[i][2] EXCEPT !.port = 7]]
                     = Addrs(it.list, 7)
C21_Witness ==
    /\ it.cur > 0
    /\ Len(it.list) = 3
    /\ it.list[1].fam = "v4" /\ it.list[2].fam = "other" /\ it.list[3].fam = "v6"
    /\ it.rets = <<Some(AddrOf(it.list[1])), Some(AddrOf(it.list[3])), None, None>>

\* C22: in the fallback engine the worker's send never blocks: a worker
\* whose resolution has returned can always make its send attempt, whether
\* its caller is still in the bounded receive, has timed out or has dropped
\* the receiver, and a worker that has sent can always end; a send made
\* after its call timed out changes no call's result and its value is
\* taken by no receive.
C22_NeverBlocks ==
    \A c \in Calls :
        /\ worker[c].st = "resolved" => ENABLED WorkerSend(c)
        /\ worker[c].st = "sent" => ENABLED WorkerExit(c)
C22_Discarded ==
    \A c \in Calls :
        (Returned(c) /\ results[c] = TimedOut)
            => /\ results'[c] = TimedOut
               /\ (worker[c].st = "resolved" /\ worker'[c].st = "sent")
                     => /\ results' = results
                        /\ pc' = pc
                        /\ chan'[c].buf \in {<<>>, <<worker[c].val>>}
               /\ chan[c].buf # <<>> => chan'[c].buf = chan[c].buf
C22_SendNeverBlocks == []C22_NeverBlocks /\ [][C22_Discarded]_vars
C22_Witness ==
    \E c, d \in Calls :
        /\ engine = "fallback"
        /\ results[c] = TimedOut /\ results[d] = TimedOut
        /\ worker[c].st = "exited" /\ worker[d].st = "exited"
        /\ chan[c].buf = <<>>
        /\ chan[d].buf = <<worker[d].val>>

\* C23: in the fallback engine the bounded receive never finds the channel
\* disconnected and empty: whenever the sender is gone while the receiver
\* exists, the worker's value is in the buffer; no call ends in the
\* unreachable!() branch; and a receive that ends in TimedOut found the
\* sender still there.
Unreachable == Err("Panic", "unreachable")
C23_ValueBeforeDrop ==
    \A c \in Calls :
        /\ (chan[c].rx /\ ~chan[c].tx) => chan[c].buf = <<worker[c].val>>
        /\ results[c] # Unreachable
C23_TimeoutConnected ==
    (pc = "fb_recv" /\ results'[callNo] = TimedOut)
        => chan[callNo].tx /\ chan[callNo].buf = <<>>
C23_NoDisconnect == []C23_ValueBeforeDrop /\ [][C23_TimeoutConnected]_vars
C23_Witness ==
    /\ engine = "fallback"
    /\ pc = "fb_recv"
    /\ worker[callNo].st = "exited"
    /\ chan[callNo].rx /\ ~chan[callNo].tx
    /\ chan[callNo].buf = <<worker[callNo].val>>

\* C24: in the Windows engine what getaddrinfo_timeout returns is what the
\* completion routine recorded for the code it was given: on ERROR_SUCCESS
\* the LookupHost over the list the OS stored, which the call collects,
\* otherwise the error of that code; no call receives the placeholder the
\* Context was created with.
C24_Recorded ==
    \A c \in Calls :
        /\ results[c] # Placeholder
        /\ (engine = "windows" /\ Returned(c) /\ win[c].event # "none")
              => /\ win[c].runs = 1
                 /\ results[c] = IF win[c].code = "Success"
                                 THEN Ok(Addrs(win[c].content, RequestedPort))
                                 ELSE WinError(win[c].code)
C24_Swap ==
    (pc = "win_wait" /\ pc' # "win_wait")
        => LET ctx == win[callNo]
           IN  /\ ctx.code \in WinCodeSet
               /\ ctx.code = "Success"
                     => /\ pc' = "win_collect"
                        /\ lh' = [original |-> "list", port |-> 0]
                        /\ results' = results
               /\ ctx.code # "Success"
                     => /\ pc' = "done"
                        /\ results'[callNo] = WinError(ctx.code)
                        /\ lh' = lh
C24_ReturnsRecorded == []C24_Recorded /\ [][C24_Swap]_vars
C24_Witness ==
    \E c, d \in Calls :
        /\ engine = "windows"
        /\ win[c].by = "inline" /\ win[c].code = "HostNotFound"
        /\ results[c] = WinError("HostNotFound")
        /\ win[d].by = "os" /\ win[d].code = "Success"
        /\ results[d].kind = "Ok" /\ results[d].addrs # <<>>
====
